---- MODULE Spec2Model ----
(***************************************************************************)
(* Sharded private lookup over homomorphic encryption.                     *)
(*                                                                         *)
(* Two programs share the protocol: the presence variant (common.ts,       *)
(* server.ts, client.ts) and the value variant (values/common.ts,          *)
(* values/client.ts and values/server.ts).  A behaviour runs one of them:  *)
(* `variant' is fixed by Init.                                             *)
(*                                                                         *)
(* Typed arrays are kept sparse: a record [len, bits, at] where `at' maps  *)
(* the indices of the nonzero elements to their values.  A store past the  *)
(* end of a typed array is dropped, as JavaScript does.                    *)
(***************************************************************************)
EXTENDS Integers, Sequences, FiniteSets, TLC

(***************************************************************************)
(* Bounds of the model.                                                    *)
(***************************************************************************)
MinKey == 17
MaxKey == 23
MaxInserts == 3
MaxValueInserts == 1

Keys == MinKey..MaxKey

\* the 10-digit domain of mobile numbers, and keys outside it that a caller
\* may still pass
InDomain(k) == k >= 0 /\ k \div 100000 <= 99999
OutOfDomainKeys == {-3}
QueryKeys == Keys \cup OutOfDomainKeys

(***************************************************************************)
(* Program constants.                                                      *)
(***************************************************************************)
shardSize == 20
values_shardSize == 20
valueSize == 20
polyModulusDegree == 4096
slotCount == polyModulusDegree

(***************************************************************************)
(* Strings are sequences of character codes.                               *)
(***************************************************************************)
Fill(c, n) == [i \in 1..n |-> c]
Values ==
  { <<>>, <<65>>, <<66, 65>>, <<65, 300>>,
    Fill(67, valueSize), Fill(68, valueSize + 1) }

\* JavaScript's %: the result takes the sign of the dividend
JsRem(a, b) == IF a >= 0 THEN a % b ELSE 0 - ((0 - a) % b)

(***************************************************************************)
(* Typed arrays.                                                           *)
(***************************************************************************)
EmptyAt == [i \in {} |-> 0]
Undefined == [len |-> -1, bits |-> 0, at |-> EmptyAt]

Uint8Array(n) == [len |-> n, bits |-> 8, at |-> EmptyAt]
Uint32Array(n) == [len |-> n, bits |-> 32, at |-> EmptyAt]

\* the value an element keeps when x is stored in it; no value of the model
\* reaches 2^32, so only the 8-bit store wraps
Wrap(a, x) == IF a.bits = 8 THEN x % 256 ELSE x

\* a[i] = f[i] for every i in DOMAIN f; stores outside 0..len-1 are dropped
PutAll(a, f) ==
  LET W == {i \in DOMAIN f : i >= 0 /\ i < a.len}
      val(i) == Wrap(a, f[i])
      D == (DOMAIN a.at \ {i \in W : val(i) = 0}) \cup {i \in W : val(i) # 0}
  IN  [a EXCEPT !.at = [j \in D |-> IF j \in W THEN val(j) ELSE a.at[j]]]

Put(a, i, x) == PutAll(a, [j \in {i} |-> x])

Uint32ArrayFrom(a) == [len |-> a.len, bits |-> 32, at |-> a.at]

Slice(a, from, to) ==
  LET end == IF to < a.len THEN to ELSE a.len
  IN  [len |-> end - from, bits |-> a.bits,
       at |-> [j \in {i \in DOMAIN a.at : i >= from /\ i < end} |-> a.at[j]]]

(***************************************************************************)
(* The encryption library, as the protocol uses it.  A plaintext has       *)
(* slotCount slots; a ciphertext is opaque to whoever lacks the secret     *)
(* key and is opened only by Decrypt.  multiplyPlain is the slot-wise      *)
(* product and refuses a plaintext that is zero everywhere (the result     *)
(* would be a transparent ciphertext).                                     *)
(***************************************************************************)
Encode(a) == [len |-> slotCount, bits |-> 32, at |-> a.at]
Decode(p) == [len |-> p.len, bits |-> 32, at |-> p.at]
Encrypt(p) == [sealed |-> p]
Decrypt(c) == c.sealed
NoCipher == Encrypt(Encode(Uint32Array(0)))

\* variant: the check looks at the product instead of the plaintext
IsTransparent_product(encrypted, plain, product) == DOMAIN product.at = {}

IsTransparent(encrypted, plain, product) == DOMAIN plain.at = {}

multiplyPlain(encrypted, plain) ==
  LET q == encrypted.sealed
      product == [len |-> slotCount, bits |-> 32,
                  at |-> [i \in DOMAIN q.at \cap DOMAIN plain.at
                            |-> q.at[i] * plain.at[i]]]
  IN  IF IsTransparent(encrypted, plain, product)
      THEN [raised |-> TRUE, result |-> NoCipher]
      ELSE [raised |-> FALSE, result |-> Encrypt(product)]

(***************************************************************************)
(* Presence variant: common.ts                                             *)
(***************************************************************************)
shardIndexOf(mobileNumber) == mobileNumber \div shardSize

\* variant: division where the remainder is meant
indexInShardOf_div(mobileNumber) == mobileNumber \div shardSize

indexInShardOf(mobileNumber) == JsRem(mobileNumber, shardSize)

(***************************************************************************)
(* Presence variant: server.ts                                             *)
(***************************************************************************)
EmptyMap == [i \in {} |-> Undefined]

shardCount(S) == Cardinality(DOMAIN S)

getShard(S, shardIndex) ==
  IF shardIndex \in DOMAIN S THEN S[shardIndex] ELSE Undefined

\* variant: the stored shard gets the reserved unit too
createShardIfEmpty_plusOne(S, shardIndex) ==
  IF shardIndex \in DOMAIN S
  THEN S
  ELSE [j \in DOMAIN S \cup {shardIndex} |->
          IF j = shardIndex THEN Uint8Array(shardSize + 1) ELSE S[j]]

createShardIfEmpty(S, shardIndex) ==
  IF shardIndex \in DOMAIN S
  THEN S
  ELSE [j \in DOMAIN S \cup {shardIndex} |->
          IF j = shardIndex THEN Uint8Array(shardSize) ELSE S[j]]

\* variant: the slot is written into a fresh array that replaces the shard
insertMobileNumberInShards_fresh(S, mobileNumber) ==
  LET shardIndex == shardIndexOf(mobileNumber)
      indexInShard == indexInShardOf(mobileNumber)
      S1 == createShardIfEmpty(S, shardIndex)
  IN  [S1 EXCEPT ![shardIndex] = Put(Uint8Array(shardSize), indexInShard, 1)]

insertMobileNumberInShards(S, mobileNumber) ==
  LET shardIndex == shardIndexOf(mobileNumber)
      indexInShard == indexInShardOf(mobileNumber)
      S1 == createShardIfEmpty(S, shardIndex)
      shard == getShard(S1, shardIndex)
  IN  [S1 EXCEPT ![shardIndex] = Put(shard, indexInShard, 1)]

\* variant: the line that sets the reserved unit is left out
shardToEncode_noSentinel(S, shardIndex) ==
  LET shard == getShard(S, shardIndex)
  IN  IF shard = Undefined THEN Uint8Array(shardSize + 1) ELSE shard

\* variant: the reserved unit is set one index early
shardToEncode_sentinelInside(S, shardIndex) ==
  LET shard == getShard(S, shardIndex)
  IN  IF shard = Undefined
      THEN Put(Uint8Array(shardSize + 1), shardSize - 1, 1)
      ELSE shard

\* the array handed to the encoder
shardToEncode(S, shardIndex) ==
  LET shard == getShard(S, shardIndex)
  IN  IF shard = Undefined
      THEN Put(Uint8Array(shardSize + 1), shardSize, 1)
      ELSE shard

shardAsPlainText(S, shardIndex) ==
  Encode(Uint32ArrayFrom(shardToEncode(S, shardIndex)))

processShardQuery(S, shardIndex, encryptedArray) ==
  multiplyPlain(encryptedArray, shardAsPlainText(S, shardIndex))

\* variant: the query path creates the shard it does not find
shardsAfterQuery_creates(S, shardIndex) == createShardIfEmpty(S, shardIndex)

\* variant: the synthesized shard is put in the map
shardsAfterQuery_stores(S, shardIndex) ==
  IF shardIndex \in DOMAIN S
  THEN S
  ELSE [j \in DOMAIN S \cup {shardIndex} |->
          IF j = shardIndex THEN shardToEncode(S, shardIndex) ELSE S[j]]

\* the shard map once processShardQuery has returned: the shard synthesized
\* for an absent index is a local of shardAsPlainText, the map is not written
shardsAfterQuery(S, shardIndex) == S

(***************************************************************************)
(* Presence variant: client.ts                                             *)
(***************************************************************************)
queryVector(mobileNumber) ==
  Put(Uint32Array(slotCount), indexInShardOf(mobileNumber), 1)

createEncryptedQuery(mobileNumber) == Encrypt(Encode(queryVector(mobileNumber)))

\* variant: the slice stops one slot early
decryptResult_shortSlice(encryptedResultArray) ==
  LET decodedResult == Decode(Decrypt(encryptedResultArray))
      normalizedSlice == Slice(decodedResult, 0, shardSize - 1)
  IN  \E i \in DOMAIN normalizedSlice.at : normalizedSlice.at[i] = 1

decryptResult(encryptedResultArray) ==
  LET decodedResult == Decode(Decrypt(encryptedResultArray))
      normalizedSlice == Slice(decodedResult, 0, shardSize)
  IN  \E i \in DOMAIN normalizedSlice.at : normalizedSlice.at[i] = 1

(***************************************************************************)
(* Value variant: values/common.ts                                         *)
(***************************************************************************)
values_shardIndexOf(mobileNumber) == mobileNumber \div values_shardSize

\* variant: division where the remainder is meant
values_indexInShardOf_div(mobileNumber) ==
  (mobileNumber \div (values_shardSize + 1)) * valueSize

values_indexInShardOf(mobileNumber) ==
  JsRem(mobileNumber, values_shardSize + 1) * valueSize

\* variant: the loop runs one position too far
setIndexInShardNumber_inclusive(shard, indexInShard, value) ==
  IF shard = Undefined
  THEN shard
  ELSE PutAll(shard,
              [i \in indexInShard..(indexInShard + valueSize) |-> value])

\* value is a number: every position of the block takes it
setIndexInShardNumber(shard, indexInShard, value) ==
  IF shard = Undefined
  THEN shard
  ELSE PutAll(shard,
              [i \in indexInShard..(indexInShard + valueSize - 1) |-> value])

\* value is a string: the loop stops where the string ends
setIndexInShardString(shard, indexInShard, value) ==
  LET n == IF Len(value) < valueSize THEN Len(value) ELSE valueSize
  IN  IF shard = Undefined
      THEN shard
      ELSE PutAll(shard,
                  [i \in indexInShard..(indexInShard + n - 1) |->
                     value[i - indexInShard + 1]])

(***************************************************************************)
(* Value variant: values/client.ts                                         *)
(***************************************************************************)
values_queryVector(mobileNumber) ==
  setIndexInShardNumber(Uint32Array(slotCount),
                        values_indexInShardOf(mobileNumber), 1)

values_createEncryptedQuery(mobileNumber) ==
  Encrypt(Encode(values_queryVector(mobileNumber)))

\* the elements of a that are neither 0 nor 1, in index order
FilterMarkers(a) ==
  LET D == {i \in DOMAIN a.at : a.at[i] # 1 /\ a.at[i] # 0}
      rank(i) == Cardinality({j \in D : j < i}) + 1
  IN  [r \in 1..Cardinality(D) |-> a.at[CHOOSE i \in D : rank(i) = r]]

values_decryptResult(encryptedResultArray) ==
  LET decodedResult == Decode(Decrypt(encryptedResultArray))
      normalizedSlice ==
        Slice(decodedResult, 0, (values_shardSize + 1) * valueSize)
  IN  FilterMarkers(normalizedSlice)

(***************************************************************************)
(* Value variant: values/server.ts, the shard store of section 4.2 with    *)
(* W-byte blocks.                                                          *)
(***************************************************************************)
values_createShardIfEmpty(S, shardIndex) ==
  IF shardIndex \in DOMAIN S
  THEN S
  ELSE [j \in DOMAIN S \cup {shardIndex} |->
          IF j = shardIndex
          THEN Uint8Array(values_shardSize * valueSize)
          ELSE S[j]]

values_insertMobileNumberInShards(S, mobileNumber, value) ==
  LET shardIndex == values_shardIndexOf(mobileNumber)
      indexInShard == values_indexInShardOf(mobileNumber)
      S1 == values_createShardIfEmpty(S, shardIndex)
      shard == getShard(S1, shardIndex)
  IN  [S1 EXCEPT ![shardIndex] = setIndexInShardString(shard, indexInShard, value)]

values_shardToEncode(S, shardIndex) ==
  LET shard == getShard(S, shardIndex)
  IN  IF shard = Undefined
      THEN Put(Uint8Array((values_shardSize + 1) * valueSize),
               values_shardSize * valueSize, 1)
      ELSE shard

values_shardAsPlainText(S, shardIndex) ==
  Encode(Uint32ArrayFrom(values_shardToEncode(S, shardIndex)))

values_processShardQuery(S, shardIndex, encryptedArray) ==
  multiplyPlain(encryptedArray, values_shardAsPlainText(S, shardIndex))

(***************************************************************************)
(* State.                                                                  *)
(*   variant      which program runs                                       *)
(*   shards       server.ts: the shard map                                 *)
(*   inserted     the mobile numbers initializeDatabase has stored         *)
(*   valueShards  values/server.ts: the shard map                          *)
(*   valueOf      the value last stored for each mobile number             *)
(*   pc           where the current request is: idle, built (the client    *)
(*                holds a query), processed (the server answered), raised  *)
(*                (the server threw), decoded (the client has the result)  *)
(*   mobileNumber the key of the current request                           *)
(*   query        the request: cleartext shardIndex and encrypted payload  *)
(*   serverSaw    what the server had in hand while it answered            *)
(*   response     the encrypted result                                     *)
(*   exists       presence variant: the decoded result                     *)
(*   value        value variant: the decoded result                        *)
(*   prev         the result the same request decoded before it was sent   *)
(*                again                                                    *)
(*   conc         two inserts running step by step (used by SpecConcurrent *)
(*                only)                                                    *)
(***************************************************************************)
VARIABLES variant, shards, inserted, valueShards, valueOf,
          pc, mobileNumber, query, serverSaw, response, exists, value,
          prev, conc

vars == <<variant, shards, inserted, valueShards, valueOf,
          pc, mobileNumber, query, serverSaw, response, exists, value,
          prev, conc>>

NoKey == -1
NoQuery == [shardIndex |-> -1, payload |-> NoCipher]
NoView == [shardIndex |-> -1, plain |-> Encode(Uint32Array(0)), raised |-> FALSE]
NoStrings == [k \in {} |-> <<>>]
NoPrev == [set |-> FALSE, exists |-> FALSE, value |-> <<>>]
NoConc == [map |-> EmptyAt, heap |-> <<>>, procs |-> <<>>, before |-> {}]

store == <<shards, inserted, valueShards, valueOf>>
request == <<mobileNumber, query, serverSaw, response, exists, value>>

Init ==
  /\ variant \in {"presence", "values"}
  /\ shards = EmptyMap
  /\ inserted = {}
  /\ valueShards = EmptyMap
  /\ valueOf = NoStrings
  /\ pc = "idle"
  /\ mobileNumber = NoKey
  /\ query = NoQuery
  /\ serverSaw = NoView
  /\ response = NoCipher
  /\ exists = FALSE
  /\ value = <<>>
  /\ prev = NoPrev
  /\ conc = NoConc

(***************************************************************************)
(* server.ts: one iteration of initializeDatabase's loop.                  *)
(***************************************************************************)
Insert(k) ==
  /\ variant = "presence"
  /\ pc = "idle"
  /\ k \in inserted \/ Cardinality(inserted) < MaxInserts
  /\ shards' = insertMobileNumberInShards(shards, k)
  /\ inserted' = inserted \cup {k}
  /\ UNCHANGED <<variant, conc, prev, valueShards, valueOf, pc, request>>

(***************************************************************************)
(* test.ts step 2: the client builds the query for k.                      *)
(***************************************************************************)
CreateQuery(k) ==
  /\ variant = "presence"
  /\ pc = "idle"
  /\ pc' = "built"
  /\ mobileNumber' = k
  /\ query' = [shardIndex |-> shardIndexOf(k), payload |-> createEncryptedQuery(k)]
  /\ UNCHANGED <<variant, conc, prev, store, serverSaw, response, exists, value>>

(***************************************************************************)
(* test.ts step 3: the server answers the request.                         *)
(***************************************************************************)
ServerView(S, shardIndex, encryptedArray) ==
  [shardIndex |-> shardIndex,
   plain |-> shardAsPlainText(S, shardIndex),
   raised |-> processShardQuery(S, shardIndex, encryptedArray).raised]

ProcessQuery ==
  /\ variant = "presence"
  /\ pc = "built"
  /\ LET r == processShardQuery(shards, query.shardIndex, query.payload)
     IN  /\ pc' = IF r.raised THEN "raised" ELSE "processed"
         /\ response' = r.result
  /\ serverSaw' = ServerView(shards, query.shardIndex, query.payload)
  /\ shards' = shardsAfterQuery(shards, query.shardIndex)
  /\ UNCHANGED <<variant, conc, prev, inserted, valueShards, valueOf,
                 mobileNumber, query, exists, value>>

(***************************************************************************)
(* test.ts step 4: the client decodes the response.                        *)
(***************************************************************************)
DecryptResult ==
  /\ variant = "presence"
  /\ pc = "processed"
  /\ pc' = "decoded"
  /\ exists' = decryptResult(response)
  /\ UNCHANGED <<variant, conc, prev, store, mobileNumber, query, serverSaw, response, value>>

(***************************************************************************)
(* The value variant: the same four steps (test-values.ts).                *)
(***************************************************************************)
ValuesInsert(k, v) ==
  /\ variant = "values"
  /\ pc = "idle"
  /\ k \in DOMAIN valueOf \/ Cardinality(DOMAIN valueOf) < MaxValueInserts
  /\ valueShards' = values_insertMobileNumberInShards(valueShards, k, v)
  /\ valueOf' = [j \in DOMAIN valueOf \cup {k} |-> IF j = k THEN v ELSE valueOf[j]]
  /\ UNCHANGED <<variant, conc, prev, shards, inserted, pc, request>>

ValuesCreateQuery(k) ==
  /\ variant = "values"
  /\ pc = "idle"
  /\ pc' = "built"
  /\ mobileNumber' = k
  /\ query' = [shardIndex |-> values_shardIndexOf(k),
               payload |-> values_createEncryptedQuery(k)]
  /\ UNCHANGED <<variant, conc, prev, store, serverSaw, response, exists, value>>

ValuesProcessQuery ==
  /\ variant = "values"
  /\ pc = "built"
  /\ LET r == values_processShardQuery(valueShards, query.shardIndex, query.payload)
     IN  /\ pc' = IF r.raised THEN "raised" ELSE "processed"
         /\ response' = r.result
         /\ serverSaw' = [shardIndex |-> query.shardIndex,
                          plain |-> values_shardAsPlainText(valueShards, query.shardIndex),
                          raised |-> r.raised]
  /\ UNCHANGED <<variant, conc, prev, store, mobileNumber, query, exists, value>>

ValuesDecryptResult ==
  /\ variant = "values"
  /\ pc = "processed"
  /\ pc' = "decoded"
  /\ value' = values_decryptResult(response)
  /\ UNCHANGED <<variant, conc, prev, store, mobileNumber, query, serverSaw, response, exists>>

(***************************************************************************)
(* The request is over (its result printed, or its error reported): query  *)
(* and response are single-use.                                            *)
(***************************************************************************)
Finish ==
  /\ pc \in {"decoded", "raised"}
  /\ pc' = "idle"
  /\ mobileNumber' = NoKey
  /\ query' = NoQuery
  /\ serverSaw' = NoView
  /\ response' = NoCipher
  /\ exists' = FALSE
  /\ value' = <<>>
  /\ prev' = NoPrev
  /\ UNCHANGED <<variant, conc, store>>

Next ==
  \/ \E k \in Keys : Insert(k)
  \/ \E k \in QueryKeys : CreateQuery(k)
  \/ ProcessQuery
  \/ DecryptResult
  \/ \E k \in Keys, v \in Values : ValuesInsert(k, v)
  \/ \E k \in QueryKeys : ValuesCreateQuery(k)
  \/ ValuesProcessQuery
  \/ ValuesDecryptResult
  \/ Finish

Spec == Init /\ [][Next]_vars

(***************************************************************************)
(* The client sends the identical request once more (same shardIndex, same *)
(* payload) and keeps the result it decoded before.                        *)
(***************************************************************************)
Repeat ==
  /\ pc = "decoded"
  /\ pc' = "built"
  /\ prev' = [set |-> TRUE, exists |-> exists, value |-> value]
  /\ UNCHANGED <<variant, conc, store, mobileNumber, query, serverSaw,
                 response, exists, value>>

NextRepeat == Next \/ Repeat

SpecRepeat == Init /\ [][NextRepeat]_vars

(***************************************************************************)
(* Two calls of insertMobileNumberInShards in flight at once, each taken   *)
(* in its four steps: the shards.has test and the shards.set of            *)
(* createShardIfEmpty, the shards.get of getShard, and the slot store.     *)
(* The Map holds references: conc.map gives each shard index the place of  *)
(* its array in conc.heap, and a call keeps the reference it read.         *)
(***************************************************************************)
Procs == {1, 2}

\* the Map as the rest of the server sees it
concShards == [j \in DOMAIN conc.map |-> conc.heap[conc.map[j]]]

\* the Map after initializeDatabase has stored the keys of pre, one by one
concLoaded(pre) ==
  LET S == IF pre = {}
           THEN EmptyMap
           ELSE insertMobileNumberInShards(EmptyMap, CHOOSE k \in pre : TRUE)
      order == IF DOMAIN S = {} THEN <<>> ELSE <<CHOOSE j \in DOMAIN S : TRUE>>
  IN  [map |-> [j \in DOMAIN S |-> 1],
       heap |-> [n \in 1..Len(order) |-> S[order[n]]]]

concCall(k) == [pc |-> "has", mobileNumber |-> k, shard |-> 0]

ConcInit ==
  /\ variant = "presence"
  /\ shards = EmptyMap
  /\ inserted = {}
  /\ valueShards = EmptyMap
  /\ valueOf = NoStrings
  /\ pc = "idle"
  /\ mobileNumber = NoKey
  /\ query = NoQuery
  /\ serverSaw = NoView
  /\ response = NoCipher
  /\ exists = FALSE
  /\ value = <<>>
  /\ prev = NoPrev
  /\ \E k1 \in Keys : \E k2 \in Keys \ {k1} :
       \E pre \in {{}} \cup {{k} : k \in Keys \ {k1, k2}} :
          conc = [map |-> concLoaded(pre).map,
                  heap |-> concLoaded(pre).heap,
                  procs |-> <<concCall(k1), concCall(k2)>>,
                  before |-> DOMAIN concLoaded(pre).map]

concRest == <<variant, store, pc, request, prev>>

\* createShardIfEmpty: if (!shards.has(shardIndex))
ConcHas(p) ==
  LET call == conc.procs[p]
      shardIndex == shardIndexOf(call.mobileNumber)
  IN  /\ call.pc = "has"
      /\ conc' = [conc EXCEPT !.procs[p].pc =
                     IF shardIndex \in DOMAIN conc.map THEN "get" ELSE "set"]
      /\ UNCHANGED concRest

\* createShardIfEmpty: shards.set(shardIndex, new Uint8Array(shardSize))
ConcSet(p) ==
  LET call == conc.procs[p]
      shardIndex == shardIndexOf(call.mobileNumber)
      heap1 == Append(conc.heap, Uint8Array(shardSize))
  IN  /\ call.pc = "set"
      /\ conc' = [conc EXCEPT
                     !.heap = heap1,
                     !.map = [j \in DOMAIN conc.map \cup {shardIndex} |->
                                IF j = shardIndex THEN Len(heap1) ELSE conc.map[j]],
                     !.procs[p].pc = "get"]
      /\ UNCHANGED concRest

\* getShard: const shard = shards.get(shardIndex)
ConcGet(p) ==
  LET call == conc.procs[p]
      shardIndex == shardIndexOf(call.mobileNumber)
  IN  /\ call.pc = "get"
      /\ conc' = [conc EXCEPT !.procs[p].shard = conc.map[shardIndex],
                              !.procs[p].pc = "store"]
      /\ UNCHANGED concRest

\* shard![indexInShard] = 1
ConcStore(p) ==
  LET call == conc.procs[p]
      indexInShard == indexInShardOf(call.mobileNumber)
  IN  /\ call.pc = "store"
      /\ conc' = [conc EXCEPT
                     !.heap[call.shard] = Put(conc.heap[call.shard], indexInShard, 1),
                     !.procs[p].pc = "done"]
      /\ UNCHANGED concRest

NextConcurrent ==
  \E p \in Procs : ConcHas(p) \/ ConcSet(p) \/ ConcGet(p) \/ ConcStore(p)

SpecConcurrent == ConcInit /\ [][NextConcurrent]_vars

(***************************************************************************)
(* Properties.                                                             *)
(***************************************************************************)
MaxDomainKey == 63
KeyDomain == 0..MaxDomainKey
ShardIndexes == 0..((MaxKey \div shardSize) + 1)

Presence == variant = "presence"
ValuesVariant == variant = "values"
Answered == pc \in {"processed", "raised", "decoded"}

\* the keys the program has handled in this state
HandledKeys == (inserted \cup DOMAIN valueOf \cup {mobileNumber}) \ {NoKey}

\* C1: presence variant, a key that was inserted is found: the request for it
\* does not raise and decodes to presence = true.
PresenceRoundTrip ==
  (Presence /\ mobileNumber \in inserted) =>
     /\ pc # "raised"
     /\ pc = "decoded" => exists = TRUE

PresenceRoundTripWitness ==
  /\ Presence /\ pc = "decoded" /\ exists = TRUE
  /\ mobileNumber \in inserted /\ Cardinality(inserted) >= 2

PresenceIffInserted ==
  (Presence /\ pc = "decoded") => (exists = TRUE <=> mobileNumber \in inserted)

SharedShardWitness ==
  /\ Presence /\ pc = "decoded" /\ exists = FALSE
  /\ mobileNumber \notin inserted
  /\ shardIndexOf(mobileNumber) \in DOMAIN shards
  /\ \E k \in inserted : shardIndexOf(k) = shardIndexOf(mobileNumber)

\* C4: value variant, the request for a key that holds the value v (at most
\* valueSize characters, none of code 0 or 1) does not raise and decodes to
\* exactly v.
ValidValue(v) ==
  /\ Len(v) <= valueSize
  /\ \A i \in 1..Len(v) : v[i] # 0 /\ v[i] # 1

ValueRoundTrip ==
  (ValuesVariant /\ mobileNumber \in DOMAIN valueOf /\ ValidValue(valueOf[mobileNumber])) =>
     /\ pc # "raised"
     /\ pc = "decoded" => value = valueOf[mobileNumber]

\* C5: two distinct keys of one shard never share a slot index, in the
\* presence mapping and in the value-variant mapping alike.
CollisionFree ==
  \A k1 \in HandledKeys, k2 \in KeyDomain :
     k1 # k2 =>
       /\ shardIndexOf(k1) = shardIndexOf(k2)
            => indexInShardOf(k1) # indexInShardOf(k2)
       /\ values_shardIndexOf(k1) = values_shardIndexOf(k2)
            => values_indexInShardOf(k1) # values_indexInShardOf(k2)

CollisionFreeWitness ==
  \E k1 \in inserted, k2 \in inserted :
     k1 # k2 /\ shardIndexOf(k1) = shardIndexOf(k2)

\* C6: value variant, the slot offset of every key is (key mod S) * W, so
\* that its W-byte block lies inside [0, S*W).
ValueSlotOffset ==
  ValuesVariant =>
    \A k \in HandledKeys :
       /\ values_indexInShardOf(k) = (k % values_shardSize) * valueSize
       /\ values_indexInShardOf(k) + valueSize <= values_shardSize * valueSize

\* C7: presence variant, the plaintext the server multiplies by is never all
\* zero: a synthesized shard carries 1 at index shardSize, a stored shard
\* has a slot set.
NeverTransparent ==
  Presence =>
    /\ \A si \in ShardIndexes :
         /\ DOMAIN shardAsPlainText(shards, si).at # {}
         /\ si \notin DOMAIN shards
              => /\ shardToEncode(shards, si).len = shardSize + 1
                 /\ shardAsPlainText(shards, si).at = [i \in {shardSize} |-> 1]
         /\ si \in DOMAIN shards => DOMAIN shards[si].at # {}
    /\ Answered => DOMAIN serverSaw.plain.at # {}

NeverTransparentWitness ==
  /\ Presence /\ Answered
  /\ query.shardIndex \notin DOMAIN shards
  /\ inserted # {}

ShardWidthAlwaysPlusOne ==
  Presence =>
    \A si \in ShardIndexes : shardToEncode(shards, si).len = shardSize + 1

\* C9 amended: a shard stored by insert has shardSize elements; only the
\* shard synthesized for an absent index has shardSize + 1, the reserved
\* unit at index shardSize being 1.
ShardWidth ==
  Presence =>
    \A si \in ShardIndexes :
       LET shard == shardToEncode(shards, si)
       IN  /\ si \in DOMAIN shards => shard.len = shardSize
           /\ si \notin DOMAIN shards
                => shard.len = shardSize + 1 /\ shardSize \in DOMAIN shard.at

ShardWidthWitness ==
  /\ Presence /\ Answered
  /\ query.shardIndex \in DOMAIN shards
  /\ \E si \in ShardIndexes : si \notin DOMAIN shards

OutOfDomainRejected ==
  (mobileNumber # NoKey /\ ~InDomain(mobileNumber)) => pc = "rejected"

\* C12: answering a request never changes the shard map, and the identical
\* request sent again does not raise and decodes to the result it decoded
\* before.
QueryIdempotent ==
  [][ /\ (pc = "built" /\ pc' # "built")
         => shards' = shards /\ valueShards' = valueShards
      /\ (prev.set /\ pc = "built") => pc' # "raised"
      /\ (prev.set /\ pc = "processed" /\ pc' = "decoded")
         => exists' = prev.exists /\ value' = prev.value ]_vars

QueryIdempotentWitness ==
  /\ Presence /\ prev.set /\ pc = "decoded"
  /\ mobileNumber \in Keys
  /\ shardIndexOf(mobileNumber) \notin DOMAIN shards
  /\ inserted # {}

\* C13: value variant, the request for a key that was never inserted does
\* not raise and decodes to the empty string, whether its shard is absent or
\* exists through other keys.
ValueAbsentKeyIsEmpty ==
  (ValuesVariant /\ mobileNumber \in Keys /\ mobileNumber \notin DOMAIN valueOf) =>
     /\ pc # "raised"
     /\ pc = "decoded" => value = <<>>

\* C14: presence variant, after any sequence of inserts and requests the
\* shard map holds exactly the shard indices of the inserted keys, so that
\* shardCount() is their number: a request creates no shard and none is
\* ever removed.
InsertedShards == {shardIndexOf(k) : k \in inserted}

ShardCountMatches ==
  Presence =>
    /\ DOMAIN shards = InsertedShards
    /\ shardCount(shards) = Cardinality(InsertedShards)

ShardCountWitness ==
  /\ Presence /\ pc = "decoded"
  /\ shardIndexOf(mobileNumber) \notin DOMAIN shards
  /\ Cardinality(inserted) = 3
  /\ shardCount(shards) = 2

\* C15: presence variant, insert(k) changes only slot indexInShardOf(k) of
\* shard shardIndexOf(k), which becomes 1 (the shard is created when it was
\* absent); every other slot and every other shard stays as it was, so a
\* slot that is 1 stays 1, and inserting a key again, like every step that
\* is not an insert, leaves the store unchanged.
slotOf(S, shardIndex, i) ==
  IF shardIndex \in DOMAIN S /\ i \in DOMAIN S[shardIndex].at
  THEN S[shardIndex].at[i]
  ELSE 0

InsertFrame(k) ==
  /\ DOMAIN shards' = DOMAIN shards \cup {shardIndexOf(k)}
  /\ \A j \in DOMAIN shards' \ {shardIndexOf(k)} : shards'[j] = shards[j]
  /\ shards'[shardIndexOf(k)].len = shardSize
  /\ \A i \in 0..(shardSize - 1) :
        slotOf(shards', shardIndexOf(k), i) =
          IF i = indexInShardOf(k) THEN 1 ELSE slotOf(shards, shardIndexOf(k), i)

SlotAppendOnly ==
  [][ Presence =>
        /\ \A j \in DOMAIN shards : \A i \in DOMAIN shards[j].at :
              slotOf(shards, j, i) = 1 => slotOf(shards', j, i) = 1
        /\ inserted' = inserted => shards' = shards
        /\ inserted' # inserted =>
              \E k \in Keys \ inserted : inserted' = inserted \cup {k} /\ InsertFrame(k) ]_vars

SlotAppendOnlyWitness ==
  /\ Presence /\ pc = "idle"
  /\ Cardinality(DOMAIN shards) = 2
  /\ \E j \in DOMAIN shards : Cardinality(DOMAIN shards[j].at) = 2

\* the valueSize-byte block of key k and the byte a value puts at offset n
blockOf(k) ==
  values_indexInShardOf(k)..(values_indexInShardOf(k) + valueSize - 1)

expectedByte(v, n) == IF n < Len(v) THEN v[n + 1] ELSE 0

\* every block holds the latest value followed by zeros, and nothing is
\* stored outside the blocks of the inserted keys
ValueBlockContents ==
  ValuesVariant =>
    /\ \A k \in DOMAIN valueOf : \A i \in blockOf(k) :
          slotOf(valueShards, values_shardIndexOf(k), i) =
            expectedByte(valueOf[k], i - values_indexInShardOf(k))
    /\ \A j \in DOMAIN valueShards : \A i \in DOMAIN valueShards[j].at :
          \E k \in DOMAIN valueOf :
             values_shardIndexOf(k) = j /\ i \in blockOf(k)

\* C16: value variant, after any sequence of inserts (a second, shorter
\* value for a key that already holds a longer one included) the
\* valueSize-byte block of every inserted key k, starting at
\* indexInShardOf(k), holds the character codes of the value most recently
\* inserted for k followed only by zeros; stated for blocks that lie inside
\* the stored shard and values of byte-sized character codes.
StaleTailFree ==
  (ValuesVariant /\ \A k \in DOMAIN valueOf :
       /\ values_indexInShardOf(k) + valueSize <= values_shardSize * valueSize
       /\ \A n \in 1..Len(valueOf[k]) : valueOf[k][n] < 256) =>
    \A k \in DOMAIN valueOf : \A i \in blockOf(k) :
       slotOf(valueShards, values_shardIndexOf(k), i) =
         expectedByte(valueOf[k], i - values_indexInShardOf(k))

\* setIndexInShard alone, on a zeroed shard: nothing outside the block
WritesInsideBlock ==
  \A k \in Keys, v \in Values :
     DOMAIN setIndexInShardString(Uint8Array((values_shardSize + 1) * valueSize),
                                  values_indexInShardOf(k), v).at
       \subseteq blockOf(k)

\* C17: two inserts for distinct keys of one previously absent shard,
\* interleaved step by step: once both have finished, the stored shard has
\* both slots set and shardCount() has grown by exactly one.
concKeys == {conc.procs[p].mobileNumber : p \in DOMAIN conc.procs}
concDone == conc.procs # <<>> /\ \A p \in Procs : conc.procs[p].pc = "done"
concSameAbsentShard ==
  /\ conc.procs # <<>>
  /\ Cardinality({shardIndexOf(k) : k \in concKeys}) = 1
  /\ \A k \in concKeys : shardIndexOf(k) \notin conc.before

ExistingShardKeepsBoth ==
  (concDone /\ \A k \in concKeys : shardIndexOf(k) \in conc.before) =>
     /\ \A k \in concKeys :
          slotOf(concShards, shardIndexOf(k), indexInShardOf(k)) = 1
     /\ shardCount(concShards) = Cardinality(conc.before)

\* the shard count alone: a shard replaced is still one shard
ConcShardCount ==
  concDone =>
    DOMAIN concShards = conc.before \cup {shardIndexOf(k) : k \in concKeys}

====
